---- MODULE Spec2Model ----
(***************************************************************************)
(* Model of the two Lambda entry points of the energy-metering repository: *)
(*   anomaly_alert_lambda.lambda_handler  (anomaly scan, S3 -> pandas ->   *)
(*                                         rules -> SNS)                   *)
(*   billing_api_lambda.lambda_handler    (monthly query, S3 -> pandas ->  *)
(*                                         month filter -> JSON)           *)
(* The object store is a set of immutable snapshots that upstream only     *)
(* adds to.  Each handler invocation is one atomic action.                 *)
(*                                                                         *)
(* Input domain.  CSV cells are integers, one non-numeric word, the empty  *)
(* field, or (in the Date column) a day-first date text.  Integer data is  *)
(* small enough that the float mean and the 1.5 * mean product of the      *)
(* source agree with exact rational arithmetic, so avg_daily is kept as    *)
(* the fraction sum / count.                                               *)
(***************************************************************************)
EXTENDS Integers, Sequences, FiniteSets, TLC

VARIABLES
    store,   \* the bucket: set of [Key, LastModified, Body]
    entry,   \* entry point of the last invocation: "none", "anomaly", "query"
    event,   \* the event of the last invocation
    resp,    \* the response the last invocation returned
    calls,   \* collaborator calls of the last invocation, in order
    df,      \* the DataFrame the last invocation ended with
    alerts,  \* the alerts list of the last anomaly scan
    stage    \* how far the last invocation got

vars == <<store, entry, event, resp, calls, df, alerts, stage>>

----------------------------------------------------------------------------
(* Bounds                                                                  *)

MaxTime == 2      \* LastModified ranges over 1..MaxTime
MaxRows == 2      \* rows per generated CSV of the scan specification

----------------------------------------------------------------------------
(* Configuration                                                           *)

S3_PREFIX_ANOMALY == "data/billing_agg_"
S3_PREFIX_BILLING == "data/billing_agg"
SPIKE_THRESHOLD == 10000

\* The keys upstream writes, in the order list_objects_v2 returns keys
\* (ascending UTF-8 binary order: '.' sorts before '_').
Keys ==
    << "data/billing_agg.csv",
       "data/billing_agg_2025_09.csv",
       "data/billing_agg_2025_10.csv" >>

KeySuffixes == {".csv", "_2025_09.csv", "_2025_10.csv", "2025_09.csv", "2025_10.csv"}

\* str.startswith, as the store applies Prefix=
HasPrefix(key, prefix) == \E s \in KeySuffixes : key = prefix \o s

sub_meter_cols == <<"total_Sub_metering_1", "total_Sub_metering_2", "total_Sub_metering_3">>

anomaly_billing_cols == <<"total_daily_sum", "peak_charge", "offpeak_charge", "total_charge">>

anomaly_numeric_cols == sub_meter_cols \o anomaly_billing_cols

billing_cols ==
    << "total_Sub_metering_1", "total_Sub_metering_2", "total_Sub_metering_3",
       "avg_submetering_value", "total_daily_sum",
       "peak_charge", "offpeak_charge", "total_charge" >>

Range(s) == {s[i] : i \in 1..Len(s)}

----------------------------------------------------------------------------
(* CSV text cells                                                          *)

IntCell(v)        == [t |-> "int",   a |-> v, b |-> 0, c |-> 0]   \* numeral v
TextCell          == [t |-> "text",  a |-> 0, b |-> 0, c |-> 0]   \* a non-numeric word
EmptyCell         == [t |-> "empty", a |-> 0, b |-> 0, c |-> 0]   \* nothing between the commas
DateCell(d, m, y) == [t |-> "date",  a |-> d, b |-> m, c |-> y]   \* the text "a-b-c"

(* pandas values                                                           *)
Num(v)       == [k |-> "num", t |-> "",   a |-> v, b |-> 0, c |-> 0]
NaN          == [k |-> "nan", t |-> "",   a |-> 0, b |-> 0, c |-> 0]
NaT          == [k |-> "nat", t |-> "",   a |-> 0, b |-> 0, c |-> 0]
Str(cell)    == [k |-> "str", t |-> cell.t, a |-> cell.a, b |-> cell.b, c |-> cell.c]
Ts(y, m, d)  == [k |-> "ts",  t |-> "",   a |-> y, b |-> m, c |-> d]

\* pd.read_csv's dtype inference for one column: all cells numerals or empty
\* gives a numeric column (empty -> NaN); anything else gives an object
\* column whose non-empty cells stay strings, the numerals among them too.
ColumnIsNumeric(table, col) ==
    \A i \in 1..Len(table.rows) : table.rows[i][col].t \in {"int", "empty"}

ReadCell(table, col, cell) ==
    IF cell.t = "empty" THEN NaN
    ELSE IF ColumnIsNumeric(table, col) THEN Num(cell.a)
    ELSE Str(cell)

\* pd.read_csv: a frame with the header's columns and the default index
\* 0, 1, 2, ...
read_csv(table) ==
    [ columns |-> table.header,
      rows    |-> [ i \in 1..Len(table.rows) |->
                      [ idx |-> i - 1,
                        val |-> [ col \in table.header |->
                                    ReadCell(table, col, table.rows[i][col]) ] ] ] ]

\* pd.to_datetime(..., dayfirst=True, errors='coerce') on one value.  Only
\* the values the input domain puts in a Date column are covered: a
\* day-first date text (first field the day, second the month), a word, or
\* a missing value.
\* (variant: without dayfirst=True, the first field is the month when it can be)
to_datetime_monthfirst(v) ==
    CASE v.k = "str" /\ v.t = "date" ->
             IF v.a <= 12 THEN Ts(v.c, v.a, v.b) ELSE Ts(v.c, v.b, v.a)
      [] v.k = "str" /\ v.t = "text" -> NaT
      [] v.k = "nan"                 -> NaT

to_datetime(v) ==
    CASE v.k = "str" /\ v.t = "date" -> Ts(v.c, v.b, v.a)
      [] v.k = "str" /\ v.t = "text" -> NaT
      [] v.k = "nan"                 -> NaT

\* pd.to_numeric(..., errors='coerce') on one value
to_numeric(v) ==
    CASE v.k = "num"                 -> v
      [] v.k = "nan"                 -> NaN
      [] v.k = "str" /\ v.t = "int"  -> Num(v.a)
      [] v.k = "str" /\ v.t # "int"  -> NaN

\* .fillna(0) on one value
fillna0(v) == IF v.k \in {"nan", "nat"} THEN Num(0) ELSE v

Pad2(n) == IF n < 10 THEN "0" \o ToString(n) ELSE ToString(n)

\* strftime('%d-%m-%Y') and strftime('%Y-%m') of a Timestamp
strftime_dmY(ts) == Pad2(ts.c) \o "-" \o Pad2(ts.b) \o "-" \o ToString(ts.a)
strftime_Ym(ts)  == ToString(ts.a) \o "-" \o Pad2(ts.b)

\* df['Date'] = pd.to_datetime(df['Date'], ...) followed by
\* dropna(subset=['Date'])
ParseAndDropDates(frame) ==
    LET parsed == [ i \in 1..Len(frame.rows) |->
                      [ frame.rows[i] EXCEPT !.val =
                          [ @ EXCEPT !["Date"] = to_datetime(@) ] ] ]
    IN  [ frame EXCEPT !.rows = SelectSeq(parsed, LAMBDA r : r.val["Date"].k = "ts") ]

EmptyFrame == [columns |-> {}, rows |-> <<>>]

----------------------------------------------------------------------------
(* Object store collaborator                                               *)

\* s3.list_objects_v2(Bucket, Prefix): the matching objects in key order;
\* the response carries 'Contents' only when there is at least one.
list_objects_v2(st, prefix) ==
    LET present == SelectSeq(Keys, LAMBDA key :
                       HasPrefix(key, prefix) /\ \E o \in st : o.Key = key)
    IN  [ i \in 1..Len(present) |->
            LET o == CHOOSE o \in st : o.Key = present[i]
            IN  [Key |-> o.Key, LastModified |-> o.LastModified] ]

\* s3.get_object(Bucket, Key)['Body']
get_object(st, key) == (CHOOSE o \in st : o.Key = key).Body

\* Python's max(iterable, key=...): the first element with the largest key
RECURSIVE MaxFrom(_, _, _)
MaxFrom(contents, i, best) ==
    IF i > Len(contents) THEN best
    ELSE MaxFrom(contents, i + 1,
                 IF contents[i].LastModified > best.LastModified
                 THEN contents[i] ELSE best)

\* max(response['Contents'], key=lambda x: x['LastModified'])['Key']
\* (variant: the first object listed, whatever its LastModified)
LatestFileFirstListed(contents) == contents[1].Key

LatestFile(contents) == MaxFrom(contents, 2, contents[1]).Key

----------------------------------------------------------------------------
(* Responses and the per-invocation record                                 *)

Response(code, plain, error, details, file, records, nalerts, rows) ==
    [ statusCode |-> code, plain |-> plain, error |-> error, details |-> details,
      file_processed |-> file, records_analyzed |-> records,
      alerts_found |-> nalerts, rows |-> rows ]

\* {"statusCode": code, "body": json.dumps({"error": msg})}
ErrorResponse(code, msg) == Response(code, FALSE, msg, "", "", 0, 0, <<>>)

NoResponse == Response(0, FALSE, "", "", "", 0, 0, <<>>)

Call(op, arg, ok) == [op |-> op, arg |-> arg, ok |-> ok]

Outcome(r, cs, frame, al, stg) ==
    [resp |-> r, calls |-> cs, df |-> frame, alerts |-> al, stage |-> stg]

\* str(e) of what a collaborator raises
ERR_LIST    == "ClientError: ListObjectsV2"
ERR_GET     == "ClientError: GetObject"
ERR_PUBLISH == "ClientError: Publish"

MSG_NO_FILES          == "No billing files found in S3"
MSG_ANOMALY_NO_DATE   == "CSV file is missing the required 'Date' column."
MSG_MONTH_REQUIRED    == "Month parameter is required, e.g., ?month=2025-10"
MSG_BILLING_NO_DATE   == "CSV missing 'Date' column"
MSG_NO_VALID_DATES    == "No valid dates found in CSV"
MSG_NO_MONTH_DATA     == "No billing data found for month "
MSG_INTERNAL          == "Internal server error"

----------------------------------------------------------------------------
(* anomaly_alert_lambda.py                                                 *)

\* for col in sub_meter_cols + billing_cols: create the column as 0 when
\* missing, else pd.to_numeric(errors='coerce').fillna(0)
AnomalyCoerce(frame) ==
    [ columns |-> frame.columns \cup Range(anomaly_numeric_cols),
      rows    |-> [ i \in 1..Len(frame.rows) |->
                      [ frame.rows[i] EXCEPT !.val =
                          [ col \in frame.columns \cup Range(anomaly_numeric_cols) |->
                              IF col \notin frame.columns THEN Num(0)
                              ELSE IF col \in Range(anomaly_numeric_cols)
                                   THEN fillna0(to_numeric(frame.rows[i].val[col]))
                                   ELSE frame.rows[i].val[col] ] ] ] ]

RECURSIVE SumDaily(_, _)
SumDaily(rows, i) ==
    IF i > Len(rows) THEN 0
    ELSE rows[i].val["total_daily_sum"].a + SumDaily(rows, i + 1)

\* avg_daily = df['total_daily_sum'].mean() if not empty else 0, kept as the
\* fraction num / den
avg_daily(frame) ==
    IF Len(frame.rows) = 0 THEN [num |-> 0, den |-> 1]
    ELSE [num |-> SumDaily(frame.rows, 1), den |-> Len(frame.rows)]

Alert(rule, row, col, value, avg) ==
    [ rule |-> rule, idx |-> row.idx, date_str |-> strftime_dmY(row.val["Date"]),
      col |-> col, value |-> value, avg |-> avg ]

\* Rule 1: avg_daily > 0 and row['total_daily_sum'] > 1.5 * avg_daily
\* (variant: without the avg_daily > 0 test)
HighConsumptionNoAvgGuard(row, avg) ==
    2 * avg.den * row.val["total_daily_sum"].a > 3 * avg.num

HighConsumption(row, avg) ==
    /\ avg.num > 0
    /\ 2 * avg.den * row.val["total_daily_sum"].a > 3 * avg.num

\* Rule 2: row['total_daily_sum'] == 0
ZeroConsumption(row) == row.val["total_daily_sum"].a = 0

\* Rule 3: row[col] > 10000
\* (variant: >= in place of >)
SpikeAtThreshold(row, col) == row.val[col].a >= SPIKE_THRESHOLD

Spike(row, col) == row.val[col].a > SPIKE_THRESHOLD

RECURSIVE SpikeAlerts(_, _, _)
SpikeAlerts(row, avg, j) ==
    IF j > Len(sub_meter_cols) THEN <<>>
    ELSE (IF Spike(row, sub_meter_cols[j])
          THEN <<Alert("spike", row, sub_meter_cols[j], row.val[sub_meter_cols[j]].a, avg)>>
          ELSE <<>>)
         \o SpikeAlerts(row, avg, j + 1)

\* the body of `for idx, row in df.iterrows()`
RowAlerts(row, avg) ==
    (IF HighConsumption(row, avg)
     THEN <<Alert("high", row, "", row.val["total_daily_sum"].a, avg)>> ELSE <<>>)
    \o (IF ZeroConsumption(row)
        THEN <<Alert("zero", row, "", 0, avg)>> ELSE <<>>)
    \o SpikeAlerts(row, avg, 1)

RECURSIVE DetectFrom(_, _, _)
DetectFrom(rows, avg, i) ==
    IF i > Len(rows) THEN <<>>
    ELSE RowAlerts(rows[i], avg) \o DetectFrom(rows, avg, i + 1)

\* 4. Anomaly Detection Logic
Detect(frame) == DetectFrom(frame.rows, avg_daily(frame), 1)

\* 5. publish when alerts is non-empty, then the 200 response
\* (variant: without the `if alerts:` test)
AnomalyDispatchAlways(latest, frame, al, cs, fail) ==
    IF fail = "publish"
    THEN Outcome(ErrorResponse(500, ERR_PUBLISH),
                 Append(cs, Call("publish", latest, FALSE)), frame, al, "publish_error")
    ELSE Outcome(Response(200, FALSE, "", "", latest, Len(frame.rows), Len(al), <<>>),
                 Append(cs, Call("publish", latest, TRUE)), frame, al, "done")

AnomalyDispatch(latest, frame, al, cs, fail) ==
    IF al # <<>> /\ fail = "publish"
    THEN Outcome(ErrorResponse(500, ERR_PUBLISH),
                 Append(cs, Call("publish", latest, FALSE)), frame, al, "publish_error")
    ELSE Outcome(Response(200, FALSE, "", "", latest, Len(frame.rows), Len(al), <<>>),
                 IF al # <<>> THEN Append(cs, Call("publish", latest, TRUE)) ELSE cs,
                 frame, al, "done")

\* lambda_handler(event, context).  fail names the collaborator call that
\* raises in this invocation, if it is reached.
AnomalyHandler(st, fail) ==
    LET contents == list_objects_v2(st, S3_PREFIX_ANOMALY)
        c1       == <<Call("list", S3_PREFIX_ANOMALY, fail # "list")>>
    IN
    IF fail = "list"
    THEN Outcome(ErrorResponse(500, ERR_LIST), c1, EmptyFrame, <<>>, "list_error")
    ELSE IF Len(contents) = 0   \* 'Contents' not in response
    THEN Outcome(Response(404, TRUE, MSG_NO_FILES, "", "", 0, 0, <<>>),
                 c1, EmptyFrame, <<>>, "no_files")
    ELSE
    LET latest_file == LatestFile(contents)
        c2          == Append(c1, Call("get", latest_file, fail # "get"))
    IN
    IF fail = "get"
    THEN Outcome(ErrorResponse(500, ERR_GET), c2, EmptyFrame, <<>>, "get_error")
    ELSE
    LET raw == read_csv(get_object(st, latest_file))
    IN
    IF "Date" \notin raw.columns
    THEN Outcome(ErrorResponse(500, MSG_ANOMALY_NO_DATE), c2, raw, <<>>, "no_date_column")
    ELSE
    LET frame == AnomalyCoerce(ParseAndDropDates(raw))
    IN  AnomalyDispatch(latest_file, frame, Detect(frame), c2, fail)

----------------------------------------------------------------------------
(* billing_api_lambda.py                                                   *)

\* dict.get(key) on a dict kept as a sequence of <<key, value>> pairs; None
\* is [none |-> TRUE, val |-> ""]
PyNone == [none |-> TRUE, val |-> ""]

RECURSIVE DictGet(_, _, _)
DictGet(d, key, i) ==
    IF i > Len(d) THEN PyNone
    ELSE IF d[i][1] = key THEN [none |-> FALSE, val |-> d[i][2]]
    ELSE DictGet(d, key, i + 1)

\* (event.get('queryStringParameters') or {}).get('month')
MonthParam(ev) ==
    LET qsp == IF ev.qsp_none \/ Len(ev.qsp) = 0 THEN <<>> ELSE ev.qsp
    IN  DictGet(qsp, "month", 1)

\* `not month`: None or the empty string
NotMonth(month) == month.none \/ month.val = ""

\* create the missing billing columns as 0, then df[billing_cols].fillna(0)
BillingFill(frame) ==
    [ columns |-> frame.columns \cup Range(billing_cols),
      rows    |-> [ i \in 1..Len(frame.rows) |->
                      [ frame.rows[i] EXCEPT !.val =
                          [ col \in frame.columns \cup Range(billing_cols) |->
                              IF col \notin frame.columns THEN Num(0)
                              ELSE IF col \in Range(billing_cols)
                                   THEN fillna0(frame.rows[i].val[col])
                                   ELSE frame.rows[i].val[col] ] ] ] ]

\* df[df['Date'].dt.strftime('%Y-%m') == month]
MonthFilter(frame, month) ==
    [ frame EXCEPT !.rows =
        SelectSeq(frame.rows, LAMBDA r : strftime_Ym(r.val["Date"]) = month) ]

\* monthly_df[['Date'] + billing_cols] with Date as strftime('%d-%m-%Y'),
\* then to_json(orient='records')
MonthlyRecords(frame) ==
    [ i \in 1..Len(frame.rows) |->
        [ Date |-> strftime_dmY(frame.rows[i].val["Date"]),
          cols |-> [ col \in Range(billing_cols) |-> frame.rows[i].val[col] ] ] ]

\* the handler from the S3 listing on
BillingQuery(st, month, fail) ==
    LET contents == list_objects_v2(st, S3_PREFIX_BILLING)
        c1       == <<Call("list", S3_PREFIX_BILLING, fail # "list")>>
    IN
    IF fail = "list"
    THEN Outcome([ErrorResponse(500, MSG_INTERNAL) EXCEPT !.details = ERR_LIST],
                 c1, EmptyFrame, <<>>, "list_error")
    ELSE IF Len(contents) = 0   \* 'Contents' not in response
    THEN Outcome(ErrorResponse(404, MSG_NO_FILES), c1, EmptyFrame, <<>>, "no_files")
    ELSE
    LET latest_file == LatestFile(contents)
        c2          == Append(c1, Call("get", latest_file, fail # "get"))
    IN
    IF fail = "get"
    THEN Outcome([ErrorResponse(500, MSG_INTERNAL) EXCEPT !.details = ERR_GET],
                 c2, EmptyFrame, <<>>, "get_error")
    ELSE
    LET raw == read_csv(get_object(st, latest_file))
    IN
    IF "Date" \notin raw.columns
    THEN Outcome(ErrorResponse(500, MSG_BILLING_NO_DATE), c2, raw, <<>>, "no_date_column")
    ELSE
    LET dated == ParseAndDropDates(raw)
    IN
    IF Len(dated.rows) = 0   \* df.empty
    THEN Outcome(ErrorResponse(500, MSG_NO_VALID_DATES), c2, dated, <<>>, "no_valid_dates")
    ELSE
    LET frame      == BillingFill(dated)
        monthly_df == MonthFilter(frame, month)
    IN
    IF Len(monthly_df.rows) = 0   \* monthly_df.empty
    THEN Outcome(ErrorResponse(404, MSG_NO_MONTH_DATA \o month),
                 c2, frame, <<>>, "no_month_data")
    ELSE Outcome(Response(200, FALSE, "", "", "", 0, 0, MonthlyRecords(monthly_df)),
                 c2, frame, <<>>, "done")

\* lambda_handler(event, context)
\* (variant: the month test moved after the S3 access)
BillingHandlerListFirst(st, ev, fail) ==
    LET out == BillingQuery(st, MonthParam(ev).val, fail)
    IN  IF NotMonth(MonthParam(ev))
        THEN [out EXCEPT !.resp = ErrorResponse(400, MSG_MONTH_REQUIRED),
                         !.stage = "no_month"]
        ELSE out

BillingHandler(st, ev, fail) ==
    IF NotMonth(MonthParam(ev))
    THEN Outcome(ErrorResponse(400, MSG_MONTH_REQUIRED), <<>>, EmptyFrame, <<>>, "no_month")
    ELSE BillingQuery(st, MonthParam(ev).val, fail)

----------------------------------------------------------------------------
(* Inputs                                                                  *)

Header5 == {"Date", "total_daily_sum"} \cup Range(sub_meter_cols)

Row5(date, daily, s1, s2, s3) ==
    [ col \in Header5 |->
        CASE col = "Date"                 -> date
          [] col = "total_daily_sum"      -> daily
          [] col = "total_Sub_metering_1" -> s1
          [] col = "total_Sub_metering_2" -> s2
          [] col = "total_Sub_metering_3" -> s3 ]

Table(header, rows) == [header |-> header, rows |-> rows]

\* The snapshots upstream writes to the bucket.
T_NoDate ==
    Table(Header5 \ {"Date"},
          << [col \in Header5 \ {"Date"} |-> IntCell(10)] >>)

T_BadDates ==
    Table(Header5, << Row5(TextCell, IntCell(40), IntCell(0), IntCell(0), IntCell(10001)) >>)

T_SeptZero ==
    Table(Header5,
          << Row5(DateCell(15, 9, 2025), IntCell(0), IntCell(0), IntCell(0), IntCell(0)) >>)

T_OctText ==
    Table(Header5,
          << Row5(EmptyCell, IntCell(10), IntCell(0), IntCell(0), IntCell(0)),
             Row5(DateCell(1, 10, 2025), TextCell, EmptyCell, IntCell(7), IntCell(10001)),
             Row5(DateCell(2, 10, 2025), IntCell(10), IntCell(3), TextCell, IntCell(0)) >>)

T_OctQuiet ==
    Table(Header5,
          << Row5(DateCell(3, 10, 2025), IntCell(10), IntCell(0), IntCell(10000), IntCell(0)) >>)

StoreTables == {T_NoDate, T_BadDates, T_SeptZero, T_OctText, T_OctQuiet}

\* The CSVs of the scan specification: every table of at most MaxRows rows
\* over these cells.
DailyCells == {IntCell(-10), IntCell(0), IntCell(10), IntCell(30), IntCell(40), TextCell}
SubCells   == {IntCell(10000), IntCell(10001)}

ScanRows ==
    { Row5(DateCell(15, 9, 2025), d, s1, s2, s3) :
        d \in DailyCells, s1 \in SubCells, s2 \in SubCells, s3 \in SubCells }
    \cup { Row5(TextCell, IntCell(40), IntCell(10001), IntCell(10001), IntCell(10001)) }

ScanTables == { Table(Header5, rows) : rows \in UNION { [1..n -> ScanRows] : n \in 0..MaxRows } }

\* API Gateway events: queryStringParameters is None or a dict
Event(none, qsp) == [qsp_none |-> none, qsp |-> qsp]

NoEvent == Event(TRUE, <<>>)

Events ==
    { Event(TRUE, <<>>),
      Event(FALSE, <<>>),
      Event(FALSE, << <<"year", "2025">> >>),
      Event(FALSE, << <<"month", "">> >>),
      Event(FALSE, << <<"month", "2025-09">> >>),
      Event(FALSE, << <<"year", "2025">>, <<"month", "2025-10">> >>),
      Event(FALSE, << <<"month", "2025-13">> >>),
      Event(FALSE, << <<"month", "abc">> >>) }

AnomalyFailures == {"none", "list", "get", "publish"}
BillingFailures == {"none", "list", "get"}

----------------------------------------------------------------------------
(* State machine                                                           *)

Init ==
    /\ store = {}
    /\ entry = "none"
    /\ event = NoEvent
    /\ resp = NoResponse
    /\ calls = <<>>
    /\ df = EmptyFrame
    /\ alerts = <<>>
    /\ stage = "init"

\* Upstream adds a snapshot under a new key; its LastModified is not earlier
\* than that of any object already there (equal within the clock's
\* resolution).
PutSnapshot ==
    \E key \in Range(Keys), lm \in 1..MaxTime, body \in StoreTables :
        /\ \A o \in store : o.Key # key /\ o.LastModified <= lm
        /\ store' = store \cup {[Key |-> key, LastModified |-> lm, Body |-> body]}
        /\ UNCHANGED <<entry, event, resp, calls, df, alerts, stage>>

Record(name, ev, out) ==
    /\ entry' = name
    /\ event' = ev
    /\ resp' = out.resp
    /\ calls' = out.calls
    /\ df' = out.df
    /\ alerts' = out.alerts
    /\ stage' = out.stage
    /\ UNCHANGED store

AnomalyScan ==
    \E fail \in AnomalyFailures : Record("anomaly", NoEvent, AnomalyHandler(store, fail))

MonthlyQuery ==
    \E ev \in Events, fail \in BillingFailures :
        Record("query", ev, BillingHandler(store, ev, fail))

Next == PutSnapshot \/ AnomalyScan \/ MonthlyQuery

Spec == Init /\ [][Next]_vars

\* The anomaly scan over every generated CSV, one snapshot in the bucket.
InitScan ==
    /\ \E body \in ScanTables :
          store = {[Key |-> Keys[2], LastModified |-> 1, Body |-> body]}
    /\ entry = "none"
    /\ event = NoEvent
    /\ resp = NoResponse
    /\ calls = <<>>
    /\ df = EmptyFrame
    /\ alerts = <<>>
    /\ stage = "init"

NextScan == AnomalyScan

SpecScan == InitScan /\ [][NextScan]_vars

----------------------------------------------------------------------------
(* Vocabulary of the properties                                            *)

CallsOf(op) == SelectSeq(calls, LAMBDA c : c.op = op)

ListSucceeded == Len(calls) >= 1 /\ calls[1].op = "list" /\ calls[1].ok

Fetched == Len(CallsOf("get")) = 1 /\ CallsOf("get")[1].ok

FetchedKey == CallsOf("get")[1].arg

\* The snapshots are immutable, so the fetched body is still in the store.
FetchedTable == (CHOOSE o \in store : o.Key = FetchedKey).Body

PrefixOf(e) == IF e = "anomaly" THEN S3_PREFIX_ANOMALY ELSE S3_PREFIX_BILLING

\* The snapshot references the store lists for entry point e
Listed(e) == {o \in store : HasPrefix(o.Key, PrefixOf(e))}

\* Detection ran to its end in the last anomaly scan
DetectionCompleted == entry = "anomaly" /\ stage \in {"done", "publish_error"}

\* Normalization ran to its end in the last invocation
Normalized ==
    \/ DetectionCompleted
    \/ entry = "query" /\ stage \in {"done", "no_month_data"}

\* The response kind of each exit of the handlers
Kind(stg) ==
    CASE stg = "init" -> "none"
      [] stg = "done" -> "ok"
      [] stg = "no_month" -> "bad-request"
      [] stg \in {"no_files", "no_month_data"} -> "not-found"
      [] stg \in {"no_date_column", "no_valid_dates"} -> "schema-error"
      [] stg \in {"list_error", "get_error", "publish_error"} -> "internal-error"

\* Rows of a CSV whose date cell parses
Parsable(table) == {i \in 1..Len(table.rows) : table.rows[i]["Date"].t = "date"}

Years == 2024..2026

\* A month selector of YEAR-MONTH form
WellFormedMonth(m) == \E y \in Years, mo \in 1..12 : m = ToString(y) \o "-" \o Pad2(mo)

\* Rows of a CSV whose date falls in calendar month m
InMonth(table, m) ==
    { i \in Parsable(table) :
        \E y \in Years, mo \in 1..12 :
            /\ m = ToString(y) \o "-" \o Pad2(mo)
            /\ table.rows[i]["Date"].c = y
            /\ table.rows[i]["Date"].b = mo }

\* The month the last query asked for, and whether it asked for one
MonthGiven ==
    /\ ~event.qsp_none
    /\ \E i \in 1..Len(event.qsp) : event.qsp[i][1] = "month" /\ event.qsp[i][2] # ""

GivenMonth == event.qsp[CHOOSE i \in 1..Len(event.qsp) : event.qsp[i][1] = "month"][2]

----------------------------------------------------------------------------
\* What an invocation leaves behind, against the store it listed
SelectsLatest ==
    /\ Len(CallsOf("get")) <= 1
    /\ \A i \in 1..Len(CallsOf("get")) :
          \E o \in Listed(entry) :
              /\ o.Key = CallsOf("get")[i].arg
              /\ \A other \in Listed(entry) : other.LastModified <= o.LastModified
    /\ (ListSucceeded /\ Listed(entry) # {}) => Len(CallsOf("get")) = 1
    /\ (ListSucceeded /\ Listed(entry) = {}) =>
          /\ resp.statusCode = 404
          /\ resp.error = MSG_NO_FILES
          /\ CallsOf("get") = <<>>

(* C1: in both entry points, on every invocation, whatever happened        *)
(* before, the snapshot fetched is one whose last_modified is the maximum  *)
(* among the references the store lists at that invocation, and one is     *)
(* fetched whenever the listing succeeds and is non-empty; when the store  *)
(* lists none, the invocation ends not-found (404) without a get call.     *)
(* A step that leaves the store alone is an invocation, so the store the   *)
(* post-state shows is the store the invocation listed.                    *)
C1_LatestSnapshotFetched ==
    [][(store' = store /\ entry' # "none") => SelectsLatest']_vars

\* An invocation fetched the later of two listed snapshots, the later one
\* not being the first the store lists.
C1_Witness ==
    /\ entry \in {"anomaly", "query"}
    /\ Fetched
    /\ SelectsLatest
    /\ \E o \in Listed(entry), other \in Listed(entry) :
          /\ o.Key = FetchedKey
          /\ other.LastModified < o.LastModified
          /\ other.Key = Keys[2] /\ o.Key = Keys[3]

(* C2: in the anomaly scan, when detection completes with a non-empty      *)
(* alert list and the publish call fails, the response still reports the   *)
(* detection result: status 200 with the selected snapshot, the record     *)
(* count and the alert count.                                              *)
C2_DispatchFailureKeepsResult ==
    ( /\ DetectionCompleted
      /\ alerts # <<>>
      /\ \E i \in 1..Len(calls) : calls[i].op = "publish" /\ ~calls[i].ok )
    => /\ resp.statusCode = 200
       /\ resp.file_processed = FetchedKey
       /\ resp.records_analyzed = Len(df.rows)
       /\ resp.alerts_found = Len(alerts)

(* C3: across both entry points, responses of two different kinds (ok,     *)
(* bad-request, not-found, schema-error, internal-error) never carry the   *)
(* same status code.  Stated over each response and the next one returned. *)
C3_DistinctStatusPerKind ==
    [][ ( /\ Kind(stage) # "none"
          /\ Kind(stage') # Kind(stage) )
        => resp'.statusCode # resp.statusCode ]_vars

\* The fixed set of numeric fields of each consumer
NumericCols(e) == IF e = "anomaly" THEN Range(anomaly_numeric_cols) ELSE Range(billing_cols)

(* C4: in both consumers' normalization, exactly the rows with a parsable  *)
(* date are retained, and every numeric field of the consumer's fixed set  *)
(* holds a number in every retained row: 0 when the cell is absent or is   *)
(* not a numeral, never a non-numeric value.                               *)
C4_MalformedNumericBecomesZero ==
    Normalized =>
        /\ {df.rows[i].idx : i \in 1..Len(df.rows)}
              = {j - 1 : j \in Parsable(FetchedTable)}
        /\ \A i \in 1..Len(df.rows), col \in NumericCols(entry) :
              /\ df.rows[i].val[col].k = "num"
              /\ ( \/ col \notin FetchedTable.header
                   \/ FetchedTable.rows[df.rows[i].idx + 1][col].t # "int" )
                 => df.rows[i].val[col].a = 0

(* C5: a monthly query with no month parameter (no query parameters, none  *)
(* named month, or an empty month) returns the bad-request result without  *)
(* any call to the object store.                                           *)
C5_MissingMonthBeforeStore ==
    (entry = "query" /\ ~MonthGiven) =>
        /\ resp.statusCode = 400
        /\ resp.error = MSG_MONTH_REQUIRED
        /\ calls = <<>>

\* Such a query ran against a bucket that had snapshots to list.
C5_Witness ==
    /\ entry = "query"
    /\ ~MonthGiven
    /\ ~event.qsp_none /\ Len(event.qsp) = 1
    /\ Listed("query") # {}
    /\ resp.statusCode = 400
    /\ calls = <<>>

(* C6: a monthly query whose month selector is present but not of          *)
(* YEAR-MONTH form ends with the bad-request result.                       *)
C6_MalformedMonthIsBadRequest ==
    (entry = "query" /\ MonthGiven /\ ~WellFormedMonth(GivenMonth)) =>
        /\ Kind(stage) = "bad-request"
        /\ resp.statusCode = 400

\* The alerts the record with index label idx contributed
AlertsOf(idx) == SelectSeq(alerts, LAMBDA al : al.idx = idx)

(* C7 as written: a single record can trigger all three rules in one scan, *)
(* so a record contributes 0 to 5 alerts, 5 being reached by some scan and *)
(* never exceeded.  "Reached by some scan" ranges over the CSVs the scan   *)
(* specification starts from.                                              *)
C7_AllThreeRulesCanFire ==
    /\ DetectionCompleted =>
          \A i \in 1..Len(df.rows) : Len(AlertsOf(df.rows[i].idx)) <= 5
    /\ \E body \in ScanTables :
          LET frame == AnomalyCoerce(ParseAndDropDates(read_csv(body)))
          IN  \E i \in 1..Len(frame.rows) :
                  Len(RowAlerts(frame.rows[i], avg_daily(frame))) = 5

(* C7 amended: the high-consumption and zero-consumption rules never fire  *)
(* for the same record (high needs daily_sum > 1.5 * avg_daily > 0, zero   *)
(* needs daily_sum == 0); each can fire together with the spikes, so a     *)
(* record contributes at most 4 alerts: at most one of high and zero, and  *)
(* at most one spike per sub-metering column.                              *)
C7_AtMostFourAlertsPerRecord ==
    DetectionCompleted =>
        \A i \in 1..Len(df.rows) :
            LET mine == AlertsOf(df.rows[i].idx)
            IN  /\ Len(mine) <= 4
                /\ Len(SelectSeq(mine, LAMBDA al : al.rule \in {"high", "zero"})) <= 1
                /\ \A col \in Range(sub_meter_cols) :
                      Len(SelectSeq(mine, LAMBDA al : al.rule = "spike" /\ al.col = col)) <= 1

\* One scan in which a record raised high and three spikes and another
\* record raised zero and three spikes: 4 alerts each.
C7_Witness ==
    /\ DetectionCompleted
    /\ \E i, j \in 1..Len(df.rows) :
          /\ Len(AlertsOf(df.rows[i].idx)) = 4
          /\ AlertsOf(df.rows[i].idx)[1].rule = "high"
          /\ Len(AlertsOf(df.rows[j].idx)) = 4
          /\ AlertsOf(df.rows[j].idx)[1].rule = "zero"

\* The reference alert sequence: sum of daily_sum, firing condition per
\* record and slot, and the fired (record, slot) pairs in order
RECURSIVE RefTotal(_)
RefTotal(rows) ==
    IF rows = <<>> THEN 0
    ELSE Head(rows).val["total_daily_sum"].a + RefTotal(Tail(rows))

\* slot 1 is high, slot 2 zero, slots 3..5 the spikes of sub-metering 1..3
RefFires(rows, i, slot) ==
    LET n     == Len(rows)
        total == RefTotal(rows)
        x     == rows[i].val["total_daily_sum"].a
    IN  CASE slot = 1 -> total > 0 /\ 2 * n * x > 3 * total
          [] slot = 2 -> x = 0
          [] slot \in 3..5 -> rows[i].val[sub_meter_cols[slot - 2]].a > 10000

RefAlerts(rows) ==
    SelectSeq([k \in 1..(5 * Len(rows)) |-> <<((k - 1) \div 5) + 1, ((k - 1) % 5) + 1>>],
              LAMBDA p : RefFires(rows, p[1], p[2]))

RefRule(slot) == IF slot = 1 THEN "high" ELSE IF slot = 2 THEN "zero" ELSE "spike"

RefCol(slot) == IF slot <= 2 THEN "" ELSE sub_meter_cols[slot - 2]

(* C8: the alert sequence of a scan is the reference sequence: records in  *)
(* row order and, per record, high (iff avg_daily > 0 and daily_sum >      *)
(* 1.5 * avg_daily, strictly), zero (iff daily_sum == 0), then one spike   *)
(* for each of sub-metering 1, 2, 3 (iff the value > 10000, strictly);     *)
(* avg_daily is the mean of daily_sum over all records, 0 when empty.      *)
C8_AlertsMatchReference ==
    DetectionCompleted =>
        LET ref == RefAlerts(df.rows)
        IN  /\ Len(alerts) = Len(ref)
            /\ \A k \in 1..Len(ref) :
                  /\ alerts[k].idx = df.rows[ref[k][1]].idx
                  /\ alerts[k].rule = RefRule(ref[k][2])
                  /\ alerts[k].col = RefCol(ref[k][2])
                  /\ alerts[k].date_str = strftime_dmY(df.rows[ref[k][1]].val["Date"])

\* A scan of two records in which one daily_sum equals 1.5 * avg_daily and
\* one sub-metering value equals 10000, neither firing, while a spike does.
C8_Witness ==
    /\ DetectionCompleted
    /\ Len(df.rows) = 2
    /\ \E i \in 1..2 :
          /\ RefTotal(df.rows) > 0
          /\ 2 * 2 * df.rows[i].val["total_daily_sum"].a = 3 * RefTotal(df.rows)
          /\ df.rows[i].val["total_Sub_metering_1"].a = 10000
          /\ df.rows[i].val["total_Sub_metering_2"].a = 10001
          /\ Len(AlertsOf(df.rows[i].idx)) = 1
          /\ AlertsOf(df.rows[i].idx)[1].col = "total_Sub_metering_2"

(* C9: an anomaly scan calls publish at most once, and exactly when        *)
(* detection completed with a non-empty alert sequence; an empty           *)
(* normalized dataset gives no alerts, no publish and a 200 response       *)
(* reporting 0 records and 0 alerts; a scan that ends not-found or in an   *)
(* error before detection completes never calls publish.                   *)
C9_PublishOnlyWithAlerts ==
    entry = "anomaly" =>
        /\ Len(CallsOf("publish")) <= 1
        /\ DetectionCompleted => (Len(CallsOf("publish")) = 1 <=> alerts # <<>>)
        /\ ~DetectionCompleted => CallsOf("publish") = <<>>
        /\ (DetectionCompleted /\ Len(df.rows) = 0) =>
              /\ alerts = <<>>
              /\ CallsOf("publish") = <<>>
              /\ resp.statusCode = 200
              /\ resp.records_analyzed = 0
              /\ resp.alerts_found = 0

\* A scan whose snapshot had rows, none with a parsable date.
C9_Witness ==
    /\ DetectionCompleted
    /\ Len(FetchedTable.rows) > 0
    /\ Len(df.rows) = 0
    /\ CallsOf("publish") = <<>>
    /\ resp.statusCode = 200

(* C10: a monthly query with a well-formed month whose snapshot has a date *)
(* column ends in the schema error "no valid dates" when no row has a      *)
(* parsable date, whatever the month; in not-found "no data for month"     *)
(* when some row has one but none falls in the month; and in ok exactly    *)
(* when some record falls in the month, returning those records.  An       *)
(* anomaly scan of a snapshot with no parsable date is not an error.       *)
C10_EmptyMonthIsNotFound ==
    /\ ( /\ entry = "query" /\ MonthGiven /\ WellFormedMonth(GivenMonth)
         /\ Fetched /\ "Date" \in FetchedTable.header )
       => /\ Parsable(FetchedTable) = {} =>
                resp.statusCode = 500 /\ resp.error = MSG_NO_VALID_DATES
          /\ (Parsable(FetchedTable) # {} /\ InMonth(FetchedTable, GivenMonth) = {}) =>
                /\ resp.statusCode = 404
                /\ resp.error = MSG_NO_MONTH_DATA \o GivenMonth
                /\ resp.rows = <<>>
          /\ resp.statusCode = 200 <=> InMonth(FetchedTable, GivenMonth) # {}
          /\ resp.statusCode = 200 =>
                Len(resp.rows) = Cardinality(InMonth(FetchedTable, GivenMonth))
    /\ ( /\ entry = "anomaly"
         /\ Fetched /\ "Date" \in FetchedTable.header
         /\ Parsable(FetchedTable) = {} )
       => /\ resp.statusCode = 200
          /\ resp.records_analyzed = 0

\* A query for 2025-10 against a snapshot whose only records are in 2025-09.
C10_Witness ==
    /\ entry = "query"
    /\ MonthGiven /\ GivenMonth = "2025-10"
    /\ Fetched
    /\ "Date" \in FetchedTable.header
    /\ Parsable(FetchedTable) # {}
    /\ InMonth(FetchedTable, "2025-09") = Parsable(FetchedTable)
    /\ resp.statusCode = 404
    /\ stage = "no_month_data"

====
